---- MODULE Spec2Model ----
(***************************************************************************)
(* A model of httpProxy.go: a forwarding proxy that accepts client         *)
(* connections, dials one upstream connection per client session and       *)
(* relays request/response cycles over that pair of connections.           *)
(*                                                                         *)
(* Bytes are one-character strings and byte strings are sequences of       *)
(* them.  A connection's inbound direction is a queue of segments (what    *)
(* one Read can return at most) followed by the way the stream ends; its   *)
(* outbound direction is the sequence of bytes written so far.             *)
(***************************************************************************)
EXTENDS Integers, Sequences, FiniteSets, TLC

(***************************************************************************)
(* Byte-string helpers: package bytes / strings as the program uses them.  *)
(***************************************************************************)

\* s[a:b] of Go (0-based, end exclusive).
Slice(s, a, b) == SubSeq(s, a + 1, b)

\* s[a:] of Go.
SliceFrom(s, a) == SubSeq(s, a + 1, Len(s))

\* bytes.HasPrefix(s, p)
HasPrefix(s, p) == Len(s) >= Len(p) /\ SubSeq(s, 1, Len(p)) = p

\* strings.Index / bytes.Index: the 0-based index of the first occurrence of
\* pat in s, or -1.
Index(s, pat) ==
    LET hits == {i \in 0..(Len(s) - Len(pat)) : Slice(s, i, i + Len(pat)) = pat}
    IN  IF hits = {} THEN -1 ELSE CHOOSE i \in hits : \A j \in hits : i <= j

\* bytes.Contains(s, pat)
Contains(s, pat) == Index(s, pat) # -1

\* bytes.Split(s, sep): every subslice between separators.  The rest of s
\* is bound as a value, so that it is computed once for the recursive call.
RECURSIVE Split(_, _)
Split(s, sep) ==
    LET idx == Index(s, sep)
    IN  IF idx = -1 THEN <<s>>
        ELSE <<Slice(s, 0, idx)>>
                \o (CHOOSE parts \in {Split(rest, sep) :
                                        rest \in {SliceFrom(s, idx + Len(sep))}} :
                        TRUE)

\* bytes.SplitN(s, sep, 2): at most two subslices, cut at the first separator.
SplitN2(s, sep) ==
    LET idx == Index(s, sep)
    IN  IF idx = -1 THEN <<s>>
        ELSE <<Slice(s, 0, idx), SliceFrom(s, idx + Len(sep))>>

\* bytes.Join(parts, sep)
RECURSIVE Join(_, _)
Join(parts, sep) ==
    IF Len(parts) = 0 THEN <<>>
    ELSE IF Len(parts) = 1 THEN parts[1]
    ELSE parts[1] \o sep \o Join(Tail(parts), sep)

\* The bytes of a sequence of segments, in order.
RECURSIVE Flat(_)
Flat(segs) == IF segs = <<>> THEN <<>> ELSE segs[1] \o Flat(Tail(segs))

\* The ASCII white space strings.TrimSpace removes (vertical tab and the
\* two non-ASCII spaces are left out of the alphabet).
WhiteSpace == {" ", "\t", "\n", "\r", "\f"}

RECURSIVE TrimLeft(_)
TrimLeft(s) ==
    IF Len(s) > 0 /\ s[1] \in WhiteSpace THEN TrimLeft(Tail(s)) ELSE s

RECURSIVE TrimRight(_)
TrimRight(s) ==
    IF Len(s) > 0 /\ s[Len(s)] \in WhiteSpace
    THEN TrimRight(SubSeq(s, 1, Len(s) - 1)) ELSE s

\* strings.TrimSpace(s)
TrimSpace(s) == TrimRight(TrimLeft(s))

UpperCase == <<"A","B","C","D","E","F","G","H","I","J","K","L","M",
               "N","O","P","Q","R","S","T","U","V","W","X","Y","Z">>
LowerCase == <<"a","b","c","d","e","f","g","h","i","j","k","l","m",
               "n","o","p","q","r","s","t","u","v","w","x","y","z">>

ToLowerByte(b) ==
    IF \E i \in 1..Len(UpperCase) : UpperCase[i] = b
    THEN LowerCase[CHOOSE i \in 1..Len(UpperCase) : UpperCase[i] = b]
    ELSE b

\* strings.ToLower(s)
ToLower(s) == [i \in 1..Len(s) |-> ToLowerByte(s[i])]

(***************************************************************************)
(* The literals of the program.                                            *)
(***************************************************************************)
CR == "\r"
LF == "\n"
CRLF == <<CR, LF>>
CRLFCRLF == <<CR, LF, CR, LF>>
FooBar == <<"F","o","o",":"," ","B","a","r">>
HTTPSlash == <<"H","T","T","P","/">>
ConnectionColon == <<"C","o","n","n","e","c","t","i","o","n",":">>
ConnectionColonSpace == <<"C","o","n","n","e","c","t","i","o","n",":"," ">>
V10 == <<"1",".","0">>
V11 == <<"1",".","1">>
KeepAliveLit == <<"k","e","e","p","-","a","l","i","v","e">>
CloseLit == <<"c","l","o","s","e">>

(***************************************************************************)
(* The pure functions of the program.                                      *)
(***************************************************************************)

\* parseHTTPHeaders: the three bytes after the first "HTTP/" when more than
\* idx+8 bytes are there, and the trimmed text after the first twelve bytes
\* of the first line starting with "Connection:".  Slicing a line shorter
\* than twelve bytes is a run-time panic.
parseHTTPHeaders(request) ==
    LET idx   == Index(request, HTTPSlash)
        ver   == IF idx # -1 /\ Len(request) > idx + 8
                 THEN Slice(request, idx + 5, idx + 8) ELSE <<>>
        lines == Split(request, CRLF)
        hits  == {i \in 1..Len(lines) : HasPrefix(lines[i], ConnectionColon)}
        first == CHOOSE i \in hits : \A j \in hits : i <= j
    IN  IF hits = {}
        THEN [panic |-> FALSE, version |-> ver, connection |-> <<>>]
        ELSE IF Len(lines[first]) < Len(ConnectionColonSpace)
        THEN [panic |-> TRUE, version |-> ver, connection |-> <<>>]
        ELSE [panic |-> FALSE, version |-> ver,
              connection |->
                  TrimSpace(SliceFrom(lines[first], Len(ConnectionColonSpace)))]

\* shouldKeepAlive with the case folding of the Connection value left out.
shouldKeepAlive_NoFold(version, connHeader) ==
    LET ver == TrimSpace(version)
        ch  == TrimSpace(connHeader)
    IN  \/ ver = V10 /\ ch = KeepAliveLit
        \/ ver = V11 /\ ch # CloseLit

\* shouldKeepAlive
shouldKeepAlive(version, connHeader) ==
    LET ver == TrimSpace(version)
        ch  == ToLower(TrimSpace(connHeader))
    IN  \/ ver = V10 /\ ch = KeepAliveLit
        \/ ver = V11 /\ ch # CloseLit

\* modifiedHeader with the lines joined by a bare LF.
modifiedHeader_LF(rawHeaders) ==
    LET parts == SplitN2(rawHeaders, CRLFCRLF)
        lines == Append(Split(parts[1], CRLF), FooBar)
    IN  Join(lines, <<LF>>) \o CRLFCRLF

\* The header block written to the client, from the bytes accumulated by
\* the scan: split at the first CRLFCRLF, split the head into lines, append
\* the line "Foo: Bar", join, terminate.
modifiedHeader(rawHeaders) ==
    LET parts == SplitN2(rawHeaders, CRLFCRLF)
        lines == Append(Split(parts[1], CRLF), FooBar)
    IN  Join(lines, CRLF) \o CRLFCRLF

\* The bytes accumulated past the first CRLFCRLF.
leftoverOf(rawHeaders) == SplitN2(rawHeaders, CRLFCRLF)[2]

(***************************************************************************)
(* Bounds of the model.                                                    *)
(***************************************************************************)
\* Connections the upstream endpoint accepts before it refuses a dial.
MaxConns == 3
\* Segments a client sends on one connection.
MaxReqs == 3
\* Responses the upstream sends on one connection.
MaxResps == 2
\* Segments the upstream cuts a response stream into.
MaxSegs == 2
\* Bytes of the body copyData copies.
MaxBody == 3

\* Two sessions, so that one can run beside another.
Sessions == {1, 2}
ConnIds == 1..MaxConns

\* The sizes of the program's read buffers.
LoopBufSize == 4096
PassBufSize == 4096
ScanBufSize == 1
CopyBufSize == 32768

(***************************************************************************)
(* State.                                                                  *)
(***************************************************************************)
VARIABLES
    pc,               \* per session: where handleProxyConnection stands
    cli,              \* per session: its client connection (clientConn)
    ups,              \* per connection id: an upstream connection
    nDial,            \* connections the upstream endpoint has accepted
    upstreamConn,     \* per session: the id of its upstreamConn, 0 before the dial
    request,          \* per session: buffer[:n] of the current cycle
    meta,             \* per session: version and connectionHeader of the cycle
    done1, done2,     \* per session: the channels of the cycle are closed
    relay,            \* per session: the upstream -> client task
    pass,             \* per session: the client -> upstream task
    crashed,          \* the process has died of a run-time panic
    env,              \* the peers: which clients and upstreams there are
    backlog,          \* the sessions whose client waits to be accepted
    hist,             \* per session: what the session has done (history)
    kaIn, kaOut       \* a call of shouldKeepAlive on its own; <<its result>>

vars == <<pc, cli, ups, nDial, upstreamConn, request, meta, done1, done2,
          relay, pass, crashed, env, backlog, hist, kaIn, kaOut>>

sessVars == <<pc, cli, ups, nDial, upstreamConn, request, meta, done1, done2,
              relay, pass, crashed, env, backlog, hist>>

(***************************************************************************)
(* Connections (net.Conn).  in: the segments the peer has sent and the     *)
(* proxy has not read; end: how the inbound stream ends after them (eof,   *)
(* err, or open: the peer stays silent); got: the bytes read so far; out:  *)
(* the bytes written so far; broken: writes fail; short: the Writer may    *)
(* accept fewer bytes than offered without an error; closed: Close ran.    *)
(***************************************************************************)
NewConn(segs, end, short) ==
    [in |-> segs, end |-> end, got |-> <<>>, out |-> <<>>,
     broken |-> FALSE, short |-> short, closed |-> FALSE]

\* A connection no session has been given yet.
NoConn == NewConn(<<>>, "open", FALSE)

Min(a, b) == IF a <= b THEN a ELSE b

\* conn.Read(buf) with len(buf) = size: the results it can have, each with
\* the connection after it.  No result: the call blocks.
ReadOutcomes(c, size) ==
    IF c.closed THEN {[data |-> <<>>, err |-> "err", conn |-> c]}
    ELSE IF c.in # <<>> THEN
        LET head == c.in[1]
            k    == Min(size, Len(head))
            rest == SubSeq(head, k + 1, Len(head))
        IN  {[data |-> SubSeq(head, 1, k), err |-> "nil",
              conn |-> [c EXCEPT !.in  = IF rest = <<>> THEN Tail(c.in)
                                         ELSE <<rest>> \o Tail(c.in),
                                 !.got = c.got \o SubSeq(head, 1, k)]]}
    ELSE IF c.end = "eof" THEN {[data |-> <<>>, err |-> "EOF", conn |-> c]}
    ELSE IF c.end = "err" THEN {[data |-> <<>>, err |-> "err", conn |-> c]}
    ELSE {}

\* The counts a Writer that accepts fewer bytes than offered may return
\* with a nil error.
ShortCounts(c, data) == IF c.short THEN 1..(Len(data) - 1) ELSE {}

\* conn.Write(data): the results it can have.  A write that fails writes
\* nothing and leaves the connection broken.
WriteOutcomes(c, data) ==
    IF c.closed \/ c.broken THEN {[n |-> 0, err |-> TRUE, conn |-> c]}
    ELSE {[n |-> Len(data), err |-> FALSE,
           conn |-> [c EXCEPT !.out = c.out \o data]]}
         \cup {[n |-> 0, err |-> TRUE, conn |-> [c EXCEPT !.broken = TRUE]]}
         \cup {[n |-> k, err |-> FALSE,
                conn |-> [c EXCEPT !.out = c.out \o SubSeq(data, 1, k)]]
               : k \in ShortCounts(c, data)}

\* conn.Close()
Closed(c) == [c EXCEPT !.closed = TRUE]

(***************************************************************************)
(* The tasks of a cycle and the history of a session.                      *)
(***************************************************************************)
\* The upstream -> client task before it is started.
RelayOff == [pc |-> "off", headerBuf |-> <<>>, leftover |-> <<>>,
             buf |-> <<>>, readErr |-> "nil", err |-> "none"]

\* proxyResponseWithHeaderInjection at its first statement.
RelayStart == [RelayOff EXCEPT !.pc = "scan"]

\* proxyResponseWithHeaderInjection returns e.
RelayReturn(r, e) == [r EXCEPT !.pc = "done", !.err = e, !.buf = <<>>]

\* The client -> upstream task before it is started.
PassOff == [pc |-> "off", buf |-> <<>>, readErr |-> "nil", end |-> "none"]

\* The copy loop of proxyData at its first statement.
PassStart == [PassOff EXCEPT !.pc = "read"]

\* The copy loop of proxyData returns; e says why.
PassReturn(p, e) == [p EXCEPT !.pc = "done", !.end = e, !.buf = <<>>]

\* What a session has done so far.  loopChunks: the chunks the loop has
\* read; cycles: the keep-alive decisions taken; dials: the calls of
\* net.Dial that succeeded; cycleErr: a task of the current cycle has ended
\* on an error; readAfterErr: the loop has read from the client after a
\* cycle in which a task ended on an error.  Lengths at the start of the
\* cycle: outMark of the client's out, gotMark of the upstream's got,
\* pGotMark of the client's got, pOutMark of the upstream's out.  copyIn:
\* the chunks the reads of copyData have returned; copyMark: the length
\* of the client's out when copyData was called.  exit: the return of
\* handleProxyConnection the session has taken ("none" before it): "dial",
\* "eof", "zero", "readerr", "fwderr", "terminate", or "panic".
HistInit == [loopChunks |-> <<>>, cycles |-> 0, dials |-> 0,
             cycleErr |-> FALSE, readAfterErr |-> FALSE,
             outMark |-> 0, gotMark |-> 0, pGotMark |-> 0, pOutMark |-> 0,
             copyIn |-> <<>>, copyMark |-> 0, exit |-> "none"]

\* CloseBoth with the upstream connection left open.
CloseBoth_ClientOnly(s, c) ==
    /\ cli' = [cli EXCEPT ![s] = Closed(c)]
    /\ ups' = ups

\* The deferred Close calls of handleProxyConnection.
CloseBoth(s, c) ==
    /\ cli' = [cli EXCEPT ![s] = Closed(c)]
    /\ ups' = IF upstreamConn[s] = 0 THEN ups
              ELSE [ups EXCEPT ![upstreamConn[s]] = Closed(@)]

(***************************************************************************)
(* The peers.  A client of session s sends requests that carry the tag of  *)
(* s; the upstream answers on connection u with responses that carry the   *)
(* tag of u, so that the bytes of different connections can be told apart. *)
(***************************************************************************)
CliTag(s) == <<"a", "b">>[s]
UpTag(u) == <<"1", "2", "3", "4", "5", "6">>[u]

\* "GET /<tag> HTTP/<ver>" CRLF, the header lines, CRLF.
Request(tag, ver, headerLines) ==
    <<"G","E","T"," ","/", tag, " ">> \o HTTPSlash \o ver \o CRLF
        \o headerLines \o CRLF

ConnectionClose == ConnectionColonSpace \o CloseLit \o CRLF

Get11(s) == Request(CliTag(s), V11, <<>>)
Get11Close(s) == Request(CliTag(s), V11, ConnectionClose)
Get10(s) == Request(CliTag(s), V10, <<>>)

\* Chunks that spell the same metadata in other ways: "Connection:" with
\* no space before the value, with two spaces and capitals, and a chunk
\* that a segment boundary ends right after the version token.
ConnectionLine(spacing, value) == ConnectionColon \o spacing \o value \o CRLF
Get10KeepAlive(s) ==
    Request(CliTag(s), V10, ConnectionLine(<<" ">>, KeepAliveLit))
Get11CloseNoSpace(s) ==
    Request(CliTag(s), V11, ConnectionLine(<<>>, CloseLit))
Get10KeepAliveNoSpace(s) ==
    Request(CliTag(s), V10, ConnectionLine(<<>>, KeepAliveLit))
Get11CloseWide(s) ==
    Request(CliTag(s), V11,
            ConnectionLine(<<" ", " ">>, <<"C","L","O","S","E"," ">>))
Get11Cut(s) == <<"G","E","T"," ","/", CliTag(s), " ">> \o HTTPSlash \o V11
GetCutAtSlash(s) == <<"G","E","T"," ","/", CliTag(s), " ">> \o HTTPSlash
Get20(s) == Request(CliTag(s), <<"2",".","0">>, <<>>)
\* A request with a line that is "Connection:" and nothing more.
Get11BareConnection(s) ==
    Request(CliTag(s), V11, ConnectionLine(<<>>, <<>>))

\* The first chunks of the clients that vary the spelling.
ParseChunks(s) ==
    { Get11(s), Get11Close(s), Get10(s), Get10KeepAlive(s),
      Get11CloseNoSpace(s), Get10KeepAliveNoSpace(s), Get11CloseWide(s),
      Get11Cut(s), GetCutAtSlash(s), Get20(s) }

\* A response: a header block of one line, the terminator, a body byte.
Response(u) == <<"K", CR, LF, CR, LF, UpTag(u)>>
\* Bytes that hold no header terminator.
NoTerminator(u) == <<"K", CR, LF, UpTag(u)>>

\* The response of the header injection example: two header lines, BODY.
Example ==
    <<"A",":"," ","1",CR,LF,"B",":"," ","2",CR,LF,CR,LF,"B","O","D","Y">>

\* The example with "Foo: Bar" injected.
ExampleInjected ==
    <<"A",":"," ","1",CR,LF,"B",":"," ","2",CR,LF,
      "F","o","o",":"," ","B","a","r",CR,LF,CR,LF,"B","O","D","Y">>

\* Upstream byte streams: with one terminator, with a second one in the
\* body, with no header line, with no body, with no terminator, empty.
Streams(u) ==
    { Example,
      <<"K", CR, LF, CR, LF, UpTag(u), CR, LF, CR, LF, "c">>,
      <<CR, LF, CR, LF, UpTag(u)>>,
      <<"K", CR, LF, CR, LF>>,
      <<"K", CR, LF, UpTag(u), CR, LF, CR>>,
      <<>> }

\* The bytes a body is made of.
Body == <<"p", "q", "r", "s", "t", "u">>

\* The sequences over S of length at most n.
SeqsUpTo(S, n) == UNION {[1..k -> S] : k \in 0..n}

\* The ways to cut s into at most k segments, none empty.
RECURSIVE Cuts(_, _)
Cuts(s, k) ==
    IF s = <<>> THEN {<<>>}
    ELSE IF k <= 1 THEN {<<s>>}
    ELSE UNION {{<<SubSeq(s, 1, i)>> \o rest :
                    rest \in Cuts(SubSeq(s, i + 1, Len(s)), k - 1)} :
                i \in 1..Len(s)}

Ends == {"eof", "err", "open"}

\* Three HTTP/1.1 requests without "Connection: close", then a fourth with
\* it, each sent as a segment of its own.
FourRequests(s) == <<Get11(s), Get11(s), Get11(s), Get11Close(s)>>

\* The clients session s can be given, in environment e.
ClientKinds(e, s) ==
    CASE e = "main" ->
           {NewConn(segs, end, FALSE) :
               segs \in SeqsUpTo({Get11(s), Get11Close(s)}, MaxReqs),
               end \in Ends}
      [] e = "scenario" ->
           {NewConn(FourRequests(s), end, FALSE) : end \in {"eof", "open"}}
      [] e = "relay" ->
           {NewConn(<<Get11(s), Get11Close(s)>>, "eof", FALSE)}
      [] e = "copy" ->
           {NewConn(<<<<"g">>, <<"m", "n">>>>, "eof", TRUE)}
      [] e = "two" ->
           {NewConn(<<Get11(s), Get11Close(s)>>, "eof", FALSE),
            NewConn(<<Get11Close(s)>>, "eof", FALSE)}
      [] e = "exits" ->
           {NewConn(segs, end, FALSE) :
               segs \in SeqsUpTo({Get11(s), Get11Close(s), <<>>}, MaxReqs),
               end \in Ends}
      [] e = "parse" ->
           {NewConn(<<chunk, CRLFCRLF>>, end, FALSE) :
               chunk \in ParseChunks(s), end \in {"eof", "err"}}
      [] e = "live" ->
           {NewConn(segs, end, FALSE) :
               segs \in {<<>>, <<Get11(s)>>, <<Get11Close(s)>>,
                         <<Get11(s), Get11Close(s)>>,
                         <<Get11(s), Get11(s), Get11(s)>>},
               end \in {"eof", "err"}}
      [] e = "odd" ->
           {NewConn(<<chunk, Get11Close(s)>>, "eof", FALSE) :
               chunk \in {Get11(s), GetCutAtSlash(s), Get11BareConnection(s)}}
      [] OTHER -> {}

\* The behaviours of the upstream on connection u, in environment e.
UpstreamKinds(e, u) ==
    CASE e = "main" ->
           {NewConn(segs, end, FALSE) :
               segs \in SeqsUpTo({Response(u), NoTerminator(u)}, MaxResps),
               end \in Ends}
      [] e = "scenario" ->
           {NewConn([i \in 1..4 |-> Response(u)], end, FALSE) :
               end \in {"eof", "open"}}
      [] e = "relay" ->
           {NewConn(segs, end, FALSE) :
               segs \in UNION {Cuts(st, MaxSegs) : st \in Streams(u)}
                        \cup {<<<<"K", CR>>, <<>>, <<LF, CR, LF, UpTag(u)>>>>},
               end \in {"eof", "err"}}
      [] e = "copy" ->
           {NewConn(<<CRLFCRLF>> \o segs, "eof", TRUE) :
               segs \in UNION {Cuts(SubSeq(Body, 1, n), n) : n \in 0..MaxBody}}
      [] e = "two" ->
           {NewConn(<<Response(u)>>, "eof", FALSE)}
      [] e = "exits" ->
           {NewConn(segs, end, FALSE) :
               segs \in {<<>>, <<Response(u)>>}, end \in Ends}
      [] e = "parse" ->
           {NewConn(<<Response(u)>>, end, FALSE) : end \in {"eof", "err"}}
      [] e = "live" ->
           {NewConn(segs, end, FALSE) :
               segs \in {<<>>, <<Response(u)>>, <<NoTerminator(u)>>,
                         <<Response(u), Response(u)>>},
               end \in {"eof", "err"}}
      [] e = "odd" ->
           {NewConn(<<Response(u)>>, "eof", FALSE)}
      [] OTHER -> {}

(***************************************************************************)
(* runHttpProxy and handleProxyConnection.                                 *)
(***************************************************************************)
\* listener.Accept() returns a client connection and the session is
\* started with it.  An Accept that fails is logged and changes nothing.
Accept(s) ==
    /\ ~crashed
    /\ s \in backlog
    /\ pc[s] = "idle"
    /\ backlog' = backlog \ {s}
    /\ \E c \in ClientKinds(env, s) : cli' = [cli EXCEPT ![s] = c]
    /\ pc' = [pc EXCEPT ![s] = "dial"]
    /\ UNCHANGED <<ups, nDial, upstreamConn, request, meta, done1, done2,
                   relay, pass, crashed, env, hist, kaIn, kaOut>>

\* The connection net.Dial returns when the upstream endpoint has accepted
\* n connections before: a new one, shared with nobody.
DialedSame(n) == 1

DialedConn(n) == n + 1

\* Dial with the first client chunk read before the upstream is dialed.
Dial_ReadFirst(s) ==
    /\ ~crashed
    /\ pc[s] = "dial"
    /\ \E ok \in {b \in BOOLEAN : b => nDial < MaxConns} :
        IF ok
        THEN /\ upstreamConn' = [upstreamConn EXCEPT ![s] = DialedConn(nDial)]
             /\ nDial' = nDial + 1
             /\ \E c \in UpstreamKinds(env, DialedConn(nDial)) :
                    ups' = [ups EXCEPT ![DialedConn(nDial)] = c]
             /\ pc' = [pc EXCEPT ![s] = "read"]
             /\ hist' = [hist EXCEPT ![s].dials = @ + 1]
             /\ UNCHANGED cli
        ELSE /\ \E r \in ReadOutcomes(cli[s], LoopBufSize) :
                    CloseBoth(s, r.conn)
             /\ pc' = [pc EXCEPT ![s] = "done"]
             /\ hist' = [hist EXCEPT ![s].exit = "dial"]
             /\ UNCHANGED <<upstreamConn, nDial>>
    /\ UNCHANGED <<request, meta, done1, done2, relay, pass, crashed, env,
                   backlog, kaIn, kaOut>>

\* net.Dial: the upstream refuses, or accepts with a new connection.
Dial(s) ==
    /\ ~crashed
    /\ pc[s] = "dial"
    /\ \E ok \in {b \in BOOLEAN : b => nDial < MaxConns} :
        IF ok
        THEN /\ upstreamConn' = [upstreamConn EXCEPT ![s] = DialedConn(nDial)]
             /\ nDial' = nDial + 1
             /\ \E c \in UpstreamKinds(env, DialedConn(nDial)) :
                    ups' = [ups EXCEPT ![DialedConn(nDial)] = c]
             /\ pc' = [pc EXCEPT ![s] = "read"]
             /\ hist' = [hist EXCEPT ![s].dials = @ + 1]
             /\ UNCHANGED cli
        ELSE /\ CloseBoth(s, cli[s])
             /\ pc' = [pc EXCEPT ![s] = "done"]
             /\ hist' = [hist EXCEPT ![s].exit = "dial"]
             /\ UNCHANGED <<upstreamConn, nDial>>
    /\ UNCHANGED <<request, meta, done1, done2, relay, pass, crashed, env,
                   backlog, kaIn, kaOut>>

\* The return the loop takes on a read that gave no data: on io.EOF, on
\* another error, on zero bytes with a nil error.
LoopExit(readErr) ==
    IF readErr = "EOF" THEN "eof"
    ELSE IF readErr = "nil" THEN "zero" ELSE "readerr"

\* LoopRead without the return on a read of zero bytes.
LoopRead_NoZeroCheck(s) ==
    /\ ~crashed
    /\ pc[s] = "read"
    /\ \E r \in ReadOutcomes(cli[s], LoopBufSize) :
        LET p == parseHTTPHeaders(r.data)
            h == [hist[s] EXCEPT !.readAfterErr = @ \/ hist[s].cycleErr]
        IN  IF r.err # "nil"
            THEN /\ CloseBoth(s, r.conn)
                 /\ pc' = [pc EXCEPT ![s] = "done"]
                 /\ hist' = [hist EXCEPT ![s] =
                        [h EXCEPT !.exit = LoopExit(r.err)]]
                 /\ UNCHANGED <<request, meta, crashed>>
            ELSE /\ cli' = [cli EXCEPT ![s] = r.conn]
                 /\ pc' = [pc EXCEPT ![s] = "forward"]
                 /\ request' = [request EXCEPT ![s] = r.data]
                 /\ meta' = [meta EXCEPT ![s] =
                        [version |-> p.version, connection |-> p.connection]]
                 /\ hist' = [hist EXCEPT ![s] =
                        [h EXCEPT !.loopChunks = Append(@, r.data)]]
                 /\ UNCHANGED <<ups, crashed>>
    /\ UNCHANGED <<nDial, upstreamConn, done1, done2, relay, pass, env, backlog,
                   kaIn, kaOut>>

\* clientConn.Read(buffer) at the head of the loop, and parseHTTPHeaders.
LoopRead(s) ==
    /\ ~crashed
    /\ pc[s] = "read"
    /\ \E r \in ReadOutcomes(cli[s], LoopBufSize) :
        LET p == parseHTTPHeaders(r.data)
            h == [hist[s] EXCEPT !.readAfterErr = @ \/ hist[s].cycleErr]
        IN  IF r.err # "nil" \/ Len(r.data) = 0
            THEN /\ CloseBoth(s, r.conn)
                 /\ pc' = [pc EXCEPT ![s] = "done"]
                 /\ hist' = [hist EXCEPT ![s] =
                        [h EXCEPT !.exit = LoopExit(r.err)]]
                 /\ UNCHANGED <<request, meta, crashed>>
            ELSE IF p.panic
            THEN /\ CloseBoth(s, r.conn)
                 /\ pc' = [pc EXCEPT ![s] = "done"]
                 /\ crashed' = TRUE
                 /\ hist' = [hist EXCEPT ![s] =
                        [h EXCEPT !.loopChunks = Append(@, r.data),
                                  !.exit = "panic"]]
                 /\ UNCHANGED <<request, meta>>
            ELSE /\ cli' = [cli EXCEPT ![s] = r.conn]
                 /\ pc' = [pc EXCEPT ![s] = "forward"]
                 /\ request' = [request EXCEPT ![s] = r.data]
                 /\ meta' = [meta EXCEPT ![s] =
                        [version |-> p.version, connection |-> p.connection]]
                 /\ hist' = [hist EXCEPT ![s] =
                        [h EXCEPT !.loopChunks = Append(@, r.data)]]
                 /\ UNCHANGED <<ups, crashed>>
    /\ UNCHANGED <<nDial, upstreamConn, done1, done2, relay, pass, env, backlog,
                   kaIn, kaOut>>

\* upstreamConn.Write(buffer[:n]), then the two tasks of the cycle are
\* started.
Forward(s) ==
    /\ ~crashed
    /\ pc[s] = "forward"
    /\ \E w \in WriteOutcomes(ups[upstreamConn[s]], request[s]) :
        IF w.err
        THEN /\ cli' = [cli EXCEPT ![s] = Closed(@)]
             /\ ups' = [ups EXCEPT ![upstreamConn[s]] = Closed(w.conn)]
             /\ pc' = [pc EXCEPT ![s] = "done"]
             /\ hist' = [hist EXCEPT ![s].exit = "fwderr"]
             /\ UNCHANGED <<done1, done2, relay, pass>>
        ELSE /\ ups' = [ups EXCEPT ![upstreamConn[s]] = w.conn]
             /\ pc' = [pc EXCEPT ![s] = "join1"]
             /\ done1' = [done1 EXCEPT ![s] = FALSE]
             /\ done2' = [done2 EXCEPT ![s] = FALSE]
             /\ relay' = [relay EXCEPT ![s] = RelayStart]
             /\ pass' = [pass EXCEPT ![s] = PassStart]
             /\ hist' = [hist EXCEPT ![s].cycleErr = FALSE,
                                     ![s].outMark = Len(cli[s].out),
                                     ![s].gotMark = Len(w.conn.got),
                                     ![s].pGotMark = Len(cli[s].got),
                                     ![s].pOutMark = Len(w.conn.out),
                                     ![s].copyIn = <<>>,
                                     ![s].copyMark = 0]
             /\ UNCHANGED cli
    /\ UNCHANGED <<nDial, upstreamConn, request, meta, crashed, env, backlog,
                   kaIn, kaOut>>

\* Join1 without the wait for done1.
Join1_NoWait(s) ==
    /\ ~crashed
    /\ pc[s] = "join1"
    /\ pc' = [pc EXCEPT ![s] = "join2"]
    /\ UNCHANGED <<cli, ups, nDial, upstreamConn, request, meta, done1, done2,
                   relay, pass, crashed, env, backlog, hist, kaIn, kaOut>>

\* <-done1
Join1(s) ==
    /\ ~crashed
    /\ pc[s] = "join1"
    /\ done1[s]
    /\ pc' = [pc EXCEPT ![s] = "join2"]
    /\ UNCHANGED <<cli, ups, nDial, upstreamConn, request, meta, done1, done2,
                   relay, pass, crashed, env, backlog, hist, kaIn, kaOut>>

\* Join2 with upstreamConn closed at the end of every cycle.
Join2_ClosePerCycle(s) ==
    /\ ~crashed
    /\ pc[s] = "join2"
    /\ done2[s]
    /\ hist' = [hist EXCEPT ![s].cycles = @ + 1,
                            ![s].exit =
                                IF shouldKeepAlive(meta[s].version,
                                                   meta[s].connection)
                                THEN @ ELSE "terminate"]
    /\ IF shouldKeepAlive(meta[s].version, meta[s].connection)
       THEN /\ pc' = [pc EXCEPT ![s] = "read"]
            /\ ups' = [ups EXCEPT ![upstreamConn[s]] = Closed(@)]
            /\ UNCHANGED cli
       ELSE /\ pc' = [pc EXCEPT ![s] = "done"]
            /\ CloseBoth(s, cli[s])
    /\ UNCHANGED <<nDial, upstreamConn, request, meta, done1, done2,
                   relay, pass, crashed, env, backlog, kaIn, kaOut>>

\* <-done2, then the keep-alive decision: continue, or break and return.
Join2(s) ==
    /\ ~crashed
    /\ pc[s] = "join2"
    /\ done2[s]
    /\ hist' = [hist EXCEPT ![s].cycles = @ + 1,
                            ![s].exit =
                                IF shouldKeepAlive(meta[s].version,
                                                   meta[s].connection)
                                THEN @ ELSE "terminate"]
    /\ IF shouldKeepAlive(meta[s].version, meta[s].connection)
       THEN /\ pc' = [pc EXCEPT ![s] = "read"]
            /\ UNCHANGED <<cli, ups>>
       ELSE /\ pc' = [pc EXCEPT ![s] = "done"]
            /\ CloseBoth(s, cli[s])
    /\ UNCHANGED <<nDial, upstreamConn, request, meta, done1, done2,
                   relay, pass, crashed, env, backlog, kaIn, kaOut>>

(***************************************************************************)
(* proxyData "UPSTREAM -> CLIENT": proxyResponseWithHeaderInjection and    *)
(* copyData, one action per Read and per Write.  The task's return and     *)
(* close(done1) are one step.                                              *)
(***************************************************************************)
\* RelaySet without close(done1) when the task returns.
RelaySet_NoSignal(s, nr, h) ==
    /\ relay' = [relay EXCEPT ![s] = nr]
    /\ done1' = done1
    /\ hist' = [hist EXCEPT ![s] =
           [h EXCEPT !.cycleErr = @ \/ (nr.pc = "done" /\ nr.err # "nil")]]

\* The task moves to nr; h is the session's history after the step.
RelaySet(s, nr, h) ==
    /\ relay' = [relay EXCEPT ![s] = nr]
    /\ done1' = [done1 EXCEPT ![s] = @ \/ nr.pc = "done"]
    /\ hist' = [hist EXCEPT ![s] =
           [h EXCEPT !.cycleErr = @ \/ (nr.pc = "done" /\ nr.err # "nil")]]

\* AfterScan with the scan stopping at the first CRLF.
AfterScan_OnCRLF(r, hb) ==
    IF ~Contains(hb, CRLF) THEN [r EXCEPT !.headerBuf = hb]
    ELSE [r EXCEPT !.pc = "hdrwrite", !.headerBuf = hb, !.leftover = <<>>,
                   !.buf = hb \o FooBar \o CRLFCRLF]

\* The state after the scan loop has accumulated hb.
AfterScan(r, hb) ==
    IF ~Contains(hb, CRLFCRLF) THEN [r EXCEPT !.headerBuf = hb]
    ELSE IF Len(SplitN2(hb, CRLFCRLF)) < 2 THEN RelayReturn(r, "malformed")
    ELSE [r EXCEPT !.pc = "hdrwrite", !.headerBuf = hb,
                   !.leftover = leftoverOf(hb), !.buf = modifiedHeader(hb)]

\* ScanRead with the buffer of copyData in place of the one-byte tmp.
ScanRead_Wide(s) ==
    /\ ~crashed
    /\ relay[s].pc = "scan"
    /\ \E r \in ReadOutcomes(ups[upstreamConn[s]], CopyBufSize) :
        /\ ups' = [ups EXCEPT ![upstreamConn[s]] = r.conn]
        /\ RelaySet(s, IF r.err # "nil" THEN RelayReturn(relay[s], "hdrread")
                       ELSE AfterScan(relay[s], relay[s].headerBuf \o r.data),
                    hist[s])
    /\ UNCHANGED <<pc, cli, nDial, upstreamConn, request, meta, done2, pass,
                   crashed, env, backlog, kaIn, kaOut>>

\* upstream.Read(tmp) of the scan loop, one byte at most.
ScanRead(s) ==
    /\ ~crashed
    /\ relay[s].pc = "scan"
    /\ \E r \in ReadOutcomes(ups[upstreamConn[s]], ScanBufSize) :
        /\ ups' = [ups EXCEPT ![upstreamConn[s]] = r.conn]
        /\ RelaySet(s, IF r.err # "nil" THEN RelayReturn(relay[s], "hdrread")
                       ELSE AfterScan(relay[s], relay[s].headerBuf \o r.data),
                    hist[s])
    /\ UNCHANGED <<pc, cli, nDial, upstreamConn, request, meta, done2, pass,
                   crashed, env, backlog, kaIn, kaOut>>

\* client.Write(modifiedHeader), and client.Write(leftover) when leftover
\* is not empty; the count a Write returns is not looked at.
RelayWrite(s) ==
    /\ ~crashed
    /\ relay[s].pc \in {"hdrwrite", "leftover"}
    /\ \E w \in WriteOutcomes(cli[s], relay[s].buf) :
        /\ cli' = [cli EXCEPT ![s] = w.conn]
        /\ RelaySet(s,
               IF w.err
               THEN RelayReturn(relay[s], IF relay[s].pc = "hdrwrite"
                                          THEN "hdrwrite" ELSE "leftoverwrite")
               ELSE IF relay[s].pc = "hdrwrite" /\ relay[s].leftover # <<>>
               THEN [relay[s] EXCEPT !.pc = "leftover", !.buf = relay[s].leftover]
               ELSE [relay[s] EXCEPT !.pc = "copyread", !.buf = <<>>],
               [hist[s] EXCEPT !.copyMark = Len(w.conn.out)])
    /\ UNCHANGED <<pc, ups, nDial, upstreamConn, request, meta, done2, pass,
                   crashed, env, backlog, kaIn, kaOut>>

\* What copyData returns for the error of src.Read.
CopyResult(readErr) == IF readErr = "EOF" THEN "nil" ELSE "read"

\* src.Read(buf) of copyData.
CopyRead(s) ==
    /\ ~crashed
    /\ relay[s].pc = "copyread"
    /\ \E r \in ReadOutcomes(ups[upstreamConn[s]], CopyBufSize) :
        /\ ups' = [ups EXCEPT ![upstreamConn[s]] = r.conn]
        /\ RelaySet(s,
               IF Len(r.data) > 0
               THEN [relay[s] EXCEPT !.pc = "copywrite", !.buf = r.data,
                                     !.readErr = r.err]
               ELSE IF r.err # "nil"
               THEN RelayReturn(relay[s], CopyResult(r.err))
               ELSE relay[s],
               [hist[s] EXCEPT !.copyIn =
                    IF Len(r.data) > 0 THEN Append(@, r.data) ELSE @])
    /\ UNCHANGED <<pc, cli, nDial, upstreamConn, request, meta, done2, pass,
                   crashed, env, backlog, kaIn, kaOut>>

\* copyData with the retry of a short write left out.
CopyPending_NoRetry(buf, written) == <<>>

\* The bytes of the chunk copyData still has to write after a Write has
\* accepted `written` of them: buf[offset:n].
CopyPending(buf, written) == SliceFrom(buf, written)

\* dst.Write of copyData: the first write of a chunk, or the retry of what
\* a short write left.
CopyWrite(s) ==
    /\ ~crashed
    /\ relay[s].pc = "copywrite"
    /\ \E w \in WriteOutcomes(cli[s], relay[s].buf) :
        LET rest == CopyPending(relay[s].buf, w.n)
        IN  /\ cli' = [cli EXCEPT ![s] = w.conn]
            /\ RelaySet(s,
                   IF w.err THEN RelayReturn(relay[s], "write")
                   ELSE IF rest # <<>> THEN [relay[s] EXCEPT !.buf = rest]
                   ELSE IF relay[s].readErr # "nil"
                   THEN RelayReturn(relay[s], CopyResult(relay[s].readErr))
                   ELSE [relay[s] EXCEPT !.pc = "copyread", !.buf = <<>>],
                   hist[s])
    /\ UNCHANGED <<pc, ups, nDial, upstreamConn, request, meta, done2, pass,
                   crashed, env, backlog, kaIn, kaOut>>

(***************************************************************************)
(* proxyData "CLIENT -> UPSTREAM": the 4096-byte copy loop.                *)
(***************************************************************************)
\* The task moves to np.
PassSet(s, np) ==
    /\ pass' = [pass EXCEPT ![s] = np]
    /\ done2' = [done2 EXCEPT ![s] = @ \/ np.pc = "done"]
    /\ hist' = [hist EXCEPT ![s].cycleErr =
           @ \/ (np.pc = "done" /\ np.end \in {"readerr", "writeerr"})]

\* Why the loop returns on the error of srcConn.Read.
PassResult(readErr) == IF readErr = "EOF" THEN "eof" ELSE "readerr"

\* PassRead with the metadata of the cycle taken anew from the bytes read.
PassRead_Inspect(s) ==
    /\ ~crashed
    /\ pass[s].pc = "read"
    /\ \E r \in ReadOutcomes(cli[s], PassBufSize) :
        /\ cli' = [cli EXCEPT ![s] = r.conn]
        /\ meta' = [meta EXCEPT ![s] =
               IF Len(r.data) > 0
               THEN [version |-> parseHTTPHeaders(r.data).version,
                     connection |-> parseHTTPHeaders(r.data).connection]
               ELSE @]
        /\ PassSet(s,
               IF Len(r.data) > 0
               THEN [pass[s] EXCEPT !.pc = "write", !.buf = r.data,
                                    !.readErr = r.err]
               ELSE IF r.err # "nil"
               THEN PassReturn(pass[s], PassResult(r.err))
               ELSE pass[s])
    /\ UNCHANGED <<pc, ups, nDial, upstreamConn, request, done1, relay,
                   crashed, env, backlog, kaIn, kaOut>>

\* srcConn.Read(buf) of the passthrough.
PassRead(s) ==
    /\ ~crashed
    /\ pass[s].pc = "read"
    /\ \E r \in ReadOutcomes(cli[s], PassBufSize) :
        /\ cli' = [cli EXCEPT ![s] = r.conn]
        /\ PassSet(s,
               IF Len(r.data) > 0
               THEN [pass[s] EXCEPT !.pc = "write", !.buf = r.data,
                                    !.readErr = r.err]
               ELSE IF r.err # "nil"
               THEN PassReturn(pass[s], PassResult(r.err))
               ELSE pass[s])
    /\ UNCHANGED <<pc, ups, nDial, upstreamConn, request, meta, done1, relay,
                   crashed, env, backlog, kaIn, kaOut>>

\* The bytes of the chunk the passthrough still has to write after a Write
\* has accepted `written` of them: none, the count is not looked at.
PassPending(buf, written) == <<>>

\* destConn.Write(buf[:n]) of the passthrough.
PassWrite(s) ==
    /\ ~crashed
    /\ pass[s].pc = "write"
    /\ \E w \in WriteOutcomes(ups[upstreamConn[s]], pass[s].buf) :
        LET rest == PassPending(pass[s].buf, w.n)
        IN  /\ ups' = [ups EXCEPT ![upstreamConn[s]] = w.conn]
            /\ PassSet(s,
                   IF w.err THEN PassReturn(pass[s], "writeerr")
                   ELSE IF rest # <<>> THEN [pass[s] EXCEPT !.buf = rest]
                   ELSE IF pass[s].readErr # "nil"
                   THEN PassReturn(pass[s], PassResult(pass[s].readErr))
                   ELSE [pass[s] EXCEPT !.pc = "read", !.buf = <<>>])
    /\ UNCHANGED <<pc, cli, nDial, upstreamConn, request, meta, done1, relay,
                   crashed, env, backlog, kaIn, kaOut>>

(***************************************************************************)
(* Specifications.                                                         *)
(***************************************************************************)
\* Nothing accepted yet: the listener is listening.
Listening(e, offered) ==
    /\ env = e
    /\ backlog = offered
    /\ pc = [s \in Sessions |-> "idle"]
    /\ cli = [s \in Sessions |-> NoConn]
    /\ ups = [u \in ConnIds |-> NoConn]
    /\ nDial = 0
    /\ upstreamConn = [s \in Sessions |-> 0]
    /\ request = [s \in Sessions |-> <<>>]
    /\ meta = [s \in Sessions |-> [version |-> <<>>, connection |-> <<>>]]
    /\ done1 = [s \in Sessions |-> FALSE]
    /\ done2 = [s \in Sessions |-> FALSE]
    /\ relay = [s \in Sessions |-> RelayOff]
    /\ pass = [s \in Sessions |-> PassOff]
    /\ crashed = FALSE
    /\ hist = [s \in Sessions |-> HistInit]

\* No call of shouldKeepAlive on its own.
NoCall == kaIn = <<>> /\ kaOut = <<>>

Step(s) ==
    \/ Accept(s) \/ Dial(s) \/ LoopRead(s) \/ Forward(s)
    \/ ScanRead(s) \/ RelayWrite(s) \/ CopyRead(s) \/ CopyWrite(s)
    \/ PassRead(s) \/ PassWrite(s)
    \/ Join1(s) \/ Join2(s)

Next == \E s \in Sessions : Step(s)

\* One session, every kind of client and upstream.
Init == Listening("main", {1}) /\ NoCall

Spec == Init /\ [][Next]_vars

(***************************************************************************)
(* shouldKeepAlive on its own: the inputs are drawn from the versions      *)
(* parseHTTPHeaders can return (three bytes, or none) and from Connection  *)
(* values in several spellings.                                            *)
(***************************************************************************)
\* Spellings of "close": cases mixed, white space around.
CloseForms ==
    { <<"c","l","o","s","e">>, <<"C","l","o","s","e">>,
      <<"C","L","O","S","E">>, <<" ","c","l","o","s","e">>,
      <<"c","L","o","S","e","\t">>, <<" ","C","L","O","S","E"," "," ">> }

\* Spellings of "keep-alive".
KeepAliveForms ==
    { <<"k","e","e","p","-","a","l","i","v","e">>,
      <<"K","e","e","p","-","A","l","i","v","e">>,
      <<"K","E","E","P","-","A","L","I","V","E">>,
      <<" ","k","e","e","p","-","a","l","i","v","e","\t">>,
      <<"\t","K","e","e","p","-","a","l","i","v","E"," ">> }

\* Values that are neither, the absent value among them.
OtherForms ==
    { <<>>, <<" ">>, <<"u","p","g","r","a","d","e">>,
      <<"c","l","o","s","e","d">>, <<"l","o","s","e">>,
      <<"k","e","e","p","a","l","i","v","e">>,
      <<"c","l","o"," ","s","e">> }

Versions ==
    { V10, V11, <<>>, <<"2",".","0">>, <<"1",".","2">>, <<"0",".","9">>,
      <<" ","1",".">>, <<"1","1"," ">> }

KAInputs ==
    [version : Versions,
     connHeader : CloseForms \cup KeepAliveForms \cup OtherForms]

\* The call returns.
KeepAliveCall ==
    /\ kaIn \in KAInputs
    /\ kaOut = <<>>
    /\ kaOut' = <<shouldKeepAlive(kaIn.version, kaIn.connHeader)>>
    /\ UNCHANGED <<kaIn, sessVars>>

InitKA ==
    /\ Listening("none", {})
    /\ kaIn \in KAInputs
    /\ kaOut = <<>>

SpecKA == InitKA /\ [][KeepAliveCall]_vars

\* The decision table of the keep-alive decision, on the spelling classes.
KeepAliveTable(version, connHeader) ==
    CASE version = V10 -> connHeader \in KeepAliveForms
      [] version = V11 -> connHeader \notin CloseForms
      [] OTHER -> FALSE

\* C2: shouldKeepAlive equals the decision table for every pair of inputs:
\* version 1.0 continues iff the Connection value is a spelling of
\* "keep-alive", version 1.1 continues iff it is not a spelling of "close",
\* every other version terminates.
C2_KeepAliveTable ==
    kaOut # <<>> => kaOut[1] = KeepAliveTable(kaIn.version, kaIn.connHeader)

\* C2: a 1.1 call with "close" in capitals and padded has returned terminate,
\* as the table says.
C2_Witness ==
    /\ kaOut = <<FALSE>>
    /\ kaIn.version = V11
    /\ kaIn.connHeader = <<" ","C","L","O","S","E"," "," ">>

(***************************************************************************)
(* The session of four requests.                                           *)
(***************************************************************************)
InitScenario == Listening("scenario", {1}) /\ NoCall

SpecScenario == InitScenario /\ [][Next]_vars

\* C1: a session whose client sends three HTTP/1.1 requests without
\* "Connection: close" and then a fourth with it, and that has ended with
\* all four read and no write failed, has performed four cycles on one
\* dialed connection, each request being the chunk its cycle started with.
C1_FourCycles ==
    \A s \in Sessions :
        ( /\ pc[s] = "done"
          /\ cli[s].got = Flat(FourRequests(s))
          /\ ~cli[s].broken
          /\ upstreamConn[s] # 0
          /\ ~ups[upstreamConn[s]].broken )
        => /\ hist[s].loopChunks = FourRequests(s)
           /\ hist[s].cycles = 4
           /\ hist[s].dials = 1

(***************************************************************************)
(* What a cycle has read and written.                                      *)
(***************************************************************************)
IsPrefix(p, s) == Len(p) <= Len(s) /\ SubSeq(s, 1, Len(p)) = p

\* The bytes the session has read from its upstream in the current cycle.
CycleIn(s) == SliceFrom(ups[upstreamConn[s]].got, hist[s].gotMark)

\* The bytes the session has written to its client in the current cycle.
CycleOut(s) == SliceFrom(cli[s].out, hist[s].outMark)

\* The bytes the passthrough has read from the client in the current cycle.
PassIn(s) == SliceFrom(cli[s].got, hist[s].pGotMark)

\* The bytes the passthrough has written to the upstream in the cycle.
PassOut(s) == SliceFrom(ups[upstreamConn[s]].out, hist[s].pOutMark)

\* The bytes the client has received since copyData was called.
CopyOut(s) == SliceFrom(cli[s].out, hist[s].copyMark)

\* out is in with the line "Foo: Bar" put in front of the first CRLFCRLF.
InjectedOnce(in, out) ==
    \E i \in 0..(Len(in) - 4) :
        /\ Slice(in, i, i + 4) = CRLFCRLF
        /\ \A j \in 0..(i - 1) : Slice(in, j, j + 4) # CRLFCRLF
        /\ out = Slice(in, 0, i) \o CRLF \o FooBar \o CRLFCRLF
                     \o SliceFrom(in, i + 4)

HasTerminator(in) ==
    \E i \in 0..(Len(in) - 4) : Slice(in, i, i + 4) = CRLFCRLF

(***************************************************************************)
(* The response relay on upstream streams cut in every way.                *)
(***************************************************************************)
InitRelay == Listening("relay", {1}) /\ NoCall

SpecRelay == InitRelay /\ [][Next]_vars

\* C3: when the upstream stream of a cycle holds CRLFCRLF and has ended
\* with end-of-stream, and no write to the client has failed, the bytes
\* written to the client in the cycle are the bytes before the first
\* CRLFCRLF, then CRLF "Foo: Bar" CRLFCRLF, then every byte after it.
C3_InjectedOnce ==
    \A s \in Sessions :
        ( /\ relay[s].pc = "done"
          /\ ups[upstreamConn[s]].end = "eof"
          /\ HasTerminator(CycleIn(s))
          /\ ~cli[s].broken )
        => /\ relay[s].err = "nil"
           /\ ups[upstreamConn[s]].in = <<>>
           /\ InjectedOnce(CycleIn(s), CycleOut(s))

\* C3: the example has been relayed: A: 1, B: 2, Foo: Bar, blank line, BODY.
C3_Witness ==
    \E s \in Sessions :
        /\ relay[s].pc = "done"
        /\ CycleIn(s) = Example
        /\ CycleOut(s) = ExampleInjected

\* C5: as long as the bytes read from the upstream in a cycle hold no
\* CRLFCRLF, nothing is written to the client in the cycle, and a relay
\* that has returned then has returned the header read error.
C5_NoPartialHeader ==
    \A s \in Sessions :
        (relay[s].pc # "off" /\ ~HasTerminator(CycleIn(s)))
        => /\ CycleOut(s) = <<>>
           /\ relay[s].pc = "done" => relay[s].err = "hdrread"

\* C5: the upstream has ended after bytes that hold no terminator, and the
\* relay has returned.
C5_Witness ==
    \E s \in Sessions :
        /\ relay[s].pc = "done"
        /\ relay[s].err = "hdrread"
        /\ Len(CycleIn(s)) > 2
        /\ CycleOut(s) = <<>>

(***************************************************************************)
(* The copy loops with Writers that accept fewer bytes than offered.       *)
(***************************************************************************)
InitCopy == Listening("copy", {1}) /\ NoCall

SpecCopy == InitCopy /\ [][Next]_vars

\* C7: when copyData has returned, the source has ended with end-of-stream
\* and no write has failed, it has returned nil, the source is read to its
\* end, and the destination has received the bytes the reads returned, in
\* order.
C7_CopyRoundTrip ==
    \A s \in Sessions :
        ( /\ relay[s].pc = "done"
          /\ relay[s].err \in {"nil", "read", "write"}
          /\ ~cli[s].broken )
        => /\ relay[s].err = "nil"
           /\ ups[upstreamConn[s]].in = <<>>
           /\ CopyOut(s) = Flat(hist[s].copyIn)

\* C7: a body of three bytes, read one byte at a time, has arrived.
C7_Witness ==
    \E s \in Sessions :
        /\ relay[s].pc = "done"
        /\ relay[s].err = "nil"
        /\ hist[s].copyIn = <<<<Body[1]>>, <<Body[2]>>, <<Body[3]>>>>
        /\ CopyOut(s) = SubSeq(Body, 1, 3)

\* C8: in both copy loops a short write loses no byte: a loop that has
\* returned on the end of its source, no write having failed, has written
\* every byte it read.
C8_ShortWritesFlushed ==
    \A s \in Sessions :
        /\ (relay[s].pc = "done" /\ relay[s].err = "nil")
            => CopyOut(s) = Flat(hist[s].copyIn)
        /\ (pass[s].pc = "done" /\ pass[s].end = "eof")
            => PassOut(s) = PassIn(s)

(***************************************************************************)
(* One session with every kind of client and upstream (Spec).              *)
(***************************************************************************)
\* A response with "Foo: Bar" appended to its header block.
InjectedResponse(u) == <<"K", CR, LF>> \o FooBar \o CRLFCRLF \o <<UpTag(u)>>

\* C4: when the relay of a cycle has returned nil, no write to the client
\* having failed, and the upstream has sent k responses in the cycle, the
\* client has received the k responses, each with "Foo: Bar" appended to
\* its header block.
C4_EveryResponseInjected ==
    \A s \in Sessions : \A k \in 1..MaxResps :
        ( /\ relay[s].pc = "done"
          /\ relay[s].err = "nil"
          /\ ~cli[s].broken
          /\ CycleIn(s) = Flat([i \in 1..k |-> Response(upstreamConn[s])]) )
        => CycleOut(s) = Flat([i \in 1..k |-> InjectedResponse(upstreamConn[s])])

\* C6: the session loop does not read from the client again after a cycle
\* in which a relay direction ended on an error.
C6_NoReadAfterError ==
    \A s \in Sessions : ~hist[s].readAfterErr

\* A task of the current cycle of s is running.
TaskRunning(s) ==
    relay[s].pc \notin {"off", "done"} \/ pass[s].pc \notin {"off", "done"}

\* C10: a session has dialed at most once, it holds a connection exactly
\* when it has dialed, every cycle runs on that connection, and the
\* connection is closed only when the session has ended, no task running.
C10_OneUpstreamPerSession ==
    \A s \in Sessions :
        /\ hist[s].dials <= 1
        /\ (hist[s].dials = 1) = (upstreamConn[s] # 0)
        /\ pc[s] \in {"read", "forward", "join1", "join2"}
            => hist[s].dials = 1
        /\ upstreamConn[s] # 0 /\ ups[upstreamConn[s]].closed
            => pc[s] = "done" /\ ~TaskRunning(s)
        /\ TaskRunning(s) => pc[s] \in {"join1", "join2"}

\* C10: a session has run a cycle with both tasks, has read the chunk of
\* its second cycle and is about to forward it on the connection it dialed
\* once, which is not closed.
C10_Witness ==
    \E s \in Sessions :
        /\ hist[s].cycles = 1
        /\ Len(hist[s].loopChunks) = 2
        /\ pc[s] = "forward"
        /\ relay[s].pc = "done" /\ pass[s].pc = "done"
        /\ hist[s].dials = 1
        /\ ~ups[upstreamConn[s]].closed

(***************************************************************************)
(* Two sessions side by side.                                              *)
(***************************************************************************)
InitTwo == Listening("two", Sessions) /\ NoCall

SpecTwo == InitTwo /\ [][Next]_vars

ClientTags == {CliTag(s) : s \in Sessions}
UpstreamTags == {UpTag(u) : u \in ConnIds}

\* C9: two sessions never hold the same upstream connection; the bytes
\* written to a session's upstream are bytes read from its own client, in
\* order; the tagged bytes written to a session's client carry the tag of
\* its own upstream connection, and the tagged bytes written to its
\* upstream the tag of its own client.
C9_NoInterleaving ==
    \A s \in Sessions :
        upstreamConn[s] # 0 =>
            /\ \A t \in Sessions \ {s} : upstreamConn[t] # upstreamConn[s]
            /\ IsPrefix(ups[upstreamConn[s]].out, cli[s].got)
            /\ \A i \in 1..Len(ups[upstreamConn[s]].out) :
                   ups[upstreamConn[s]].out[i] \in ClientTags
                       => ups[upstreamConn[s]].out[i] = CliTag(s)
            /\ \A i \in 1..Len(cli[s].out) :
                   cli[s].out[i] \in UpstreamTags
                       => cli[s].out[i] = UpTag(upstreamConn[s])

\* C9: both sessions are in a cycle at once, each having relayed bytes in
\* both directions.
C9_Witness ==
    \A s \in Sessions :
        /\ pc[s] = "join1"
        /\ UpTag(upstreamConn[s]) \in {cli[s].out[i] : i \in 1..Len(cli[s].out)}
        /\ Len(ups[upstreamConn[s]].out) > Len(Get11(s))

(***************************************************************************)
(* The ways a session ends.  The client sends up to MaxReqs segments, a    *)
(* request or nothing at all in each (a read of zero bytes with no error), *)
(* then ends, fails or stays silent; the upstream answers once or not at   *)
(* all.                                                                    *)
(***************************************************************************)
InitExits == Listening("exits", {1}) /\ NoCall

SpecExits == InitExits /\ [][Next]_vars

\* C11: a session that has ended after a successful dial, by whichever
\* return (client end-of-stream, zero-byte read, client read error, upstream
\* write failure, keep-alive decision terminate), has its client and its
\* upstream connection closed; a session that has ended on a failed dial
\* has its client connection closed.
C11_BothReleased ==
    \A s \in Sessions :
        pc[s] = "done" =>
            /\ cli[s].closed
            /\ hist[s].exit # "dial" =>
                   /\ upstreamConn[s] # 0
                   /\ ups[upstreamConn[s]].closed

\* C11: a session has ended on a failed forward in its first cycle, and
\* both of its connections are closed.
C11_Witness ==
    /\ pc[1] = "done"
    /\ hist[1].exit = "fwderr"
    /\ hist[1].dials = 1
    /\ cli[1].closed
    /\ ups[upstreamConn[1]].closed

(***************************************************************************)
(* The metadata of a chunk and the decision of its cycle.  The client's    *)
(* first segment is one of ParseChunks, the rest of its bytes come in a    *)
(* second segment; the upstream answers once.                              *)
(***************************************************************************)
InitParse == Listening("parse", {1}) /\ NoCall

SpecParse == InitParse /\ [][Next]_vars

\* The version a chunk names: the x.y of its first "HTTP/x.y", wherever
\* the token lies, and no version when the chunk holds no such token.
VersionToken(chunk) ==
    LET idx == Index(chunk, HTTPSlash)
    IN  IF idx # -1 /\ Len(chunk) >= idx + 8
        THEN Slice(chunk, idx + 5, idx + 8) ELSE <<>>

\* The Connection value of a chunk: the text after the colon of its first
\* "Connection:" line, trimmed; nothing when there is no such line.
ConnectionValue(chunk) ==
    LET lines == Split(chunk, CRLF)
        hits  == {i \in 1..Len(lines) : HasPrefix(lines[i], ConnectionColon)}
        first == CHOOSE i \in hits : \A j \in hits : i <= j
    IN  IF hits = {} THEN <<>>
        ELSE TrimSpace(SliceFrom(lines[first], Len(ConnectionColon)))

\* The decision the keep-alive table gives for a chunk.
ChunkDecision(chunk) ==
    KeepAliveTable(VersionToken(chunk), ConnectionValue(chunk))

\* C12: the decision taken at the end of each cycle is the keep-alive table
\* applied to the version token and the Connection value of the chunk the
\* cycle started with, wherever the token lies in the chunk and whatever
\* the spacing after the colon: the session has taken the return of the
\* decision terminate at the end of cycle k exactly when the table says
\* terminate for chunk k.
C12_DecisionFromChunk ==
    \A s \in Sessions :
        \A k \in 1..hist[s].cycles :
            (hist[s].exit = "terminate" /\ k = hist[s].cycles)
                <=> ~ChunkDecision(hist[s].loopChunks[k])

(***************************************************************************)
(* The fork and the join of a cycle.                                       *)
(***************************************************************************)
\* The task record t is that of a task that has not returned.
Live(t) == t.pc \notin {"off", "done"}

InHand(s) ==
    IF pc[s] = "forward" THEN request[s]
    ELSE IF pass[s].pc = "write" THEN pass[s].buf
    ELSE <<>>

\* The last element of a sequence that is not empty.
Last(q) == q[Len(q)]

\* C14: when no write is short, at every point of a session the bytes
\* written to its upstream are a prefix of the bytes read from its client,
\* by the loop or by the passthrough; as long as no write to the upstream
\* has failed they are all the bytes read but those of the chunk in hand;
\* and the metadata the decision is taken on are those of the last chunk
\* the loop has read, whatever the passthrough has read since.
C14_ForwardedVerbatim ==
    \A s \in Sessions :
        upstreamConn[s] # 0 =>
            LET up == ups[upstreamConn[s]]
            IN  /\ IsPrefix(up.out, cli[s].got)
                /\ ~up.broken => cli[s].got = up.out \o InHand(s)
                /\ hist[s].loopChunks # <<>> =>
                    LET p == parseHTTPHeaders(Last(hist[s].loopChunks))
                    IN  /\ meta[s].version = p.version
                        /\ meta[s].connection = p.connection
                /\ hist[s].exit = "terminate" =>
                       ~shouldKeepAlive(meta[s].version, meta[s].connection)
                /\ pc[s] = "read" /\ hist[s].cycles > 0 =>
                       shouldKeepAlive(meta[s].version, meta[s].connection)

\* C14: the loop has read a request without "Connection: close", the
\* passthrough has read and forwarded one with it, both have reached the
\* upstream in order, and the decision has been to continue.
C14_Witness ==
    /\ pc[1] = "read"
    /\ hist[1].cycles = 1
    /\ hist[1].loopChunks = <<Get11(1)>>
    /\ cli[1].got = Get11(1) \o Get11Close(1)
    /\ ups[upstreamConn[1]].out = Get11(1) \o Get11Close(1)

(***************************************************************************)
(* The session whose dial fails.                                           *)
(***************************************************************************)
\* C15: a session whose dial has failed has ended with no upstream
\* connection, without a byte read from its client (what the client had
\* sent is still unread), without a byte written to it, without a chunk
\* read by the loop, a cycle or a relay task started, and with its client
\* connection closed.
C15_DialFailure ==
    \A s \in Sessions :
        hist[s].exit = "dial" =>
            /\ pc[s] = "done"
            /\ upstreamConn[s] = 0 /\ hist[s].dials = 0
            /\ cli[s].got = <<>> /\ cli[s].out = <<>>
            /\ cli[s] \in {Closed(c) : c \in ClientKinds(env, s)}
            /\ hist[s].loopChunks = <<>> /\ hist[s].cycles = 0
            /\ relay[s] = RelayOff /\ pass[s] = PassOff
            /\ ~done1[s] /\ ~done2[s]
            /\ cli[s].closed

\* C15: the dial has failed for a client that had sent two requests; the
\* session has ended, the requests unread, the client connection closed.
C15_Witness ==
    /\ hist[1].exit = "dial"
    /\ pc[1] = "done"
    /\ cli[1].in = <<Get11(1), Get11Close(1)>>
    /\ cli[1].got = <<>>
    /\ cli[1].closed

(***************************************************************************)
(* The cycle that does no work.                                            *)
(***************************************************************************)
\* The results clientConn.Read at the head of the loop can have now, when
\* the session is there.
LoopReads(s) == ReadOutcomes(cli[s], LoopBufSize)

\* The read at the head of the loop can only fail or give nothing.
LoopReadGivesNothing(s) ==
    /\ pc[s] = "read"
    /\ LoopReads(s) # {}
    /\ \A r \in LoopReads(s) : r.err # "nil" \/ r.data = <<>>

\* The step has neither started a task of s nor written to its client.
NoCycleWork(s) ==
    /\ relay'[s] = relay[s] /\ pass'[s] = pass[s]
    /\ ~Live(relay'[s]) /\ ~Live(pass'[s])
    /\ done1'[s] = done1[s] /\ done2'[s] = done2[s]
    /\ cli'[s].out = cli[s].out
    /\ hist'[s].cycles = hist[s].cycles

\* C16: the step a session takes at the head of its loop when the client
\* read gives end-of-stream, zero bytes or an error ends the session: no
\* task is started, nothing is written to the client or to the upstream,
\* no chunk is recorded, both connections are closed; a session goes on
\* to forward only with a chunk that is not empty; and the step in which
\* the forward fails ends the session as well, with no task started and
\* nothing written to the client.
C16_NoWorkWithoutChunk ==
    [][\A s \in Sessions :
        /\ LoopReadGivesNothing(s) /\ pc'[s] # "read"
            => /\ pc'[s] = "done"
               /\ hist'[s].exit \in {LoopExit(r.err) : r \in LoopReads(s)}
               /\ NoCycleWork(s)
               /\ ups'[upstreamConn[s]].out = ups[upstreamConn[s]].out
               /\ hist'[s].loopChunks = hist[s].loopChunks
               /\ cli'[s].closed /\ ups'[upstreamConn[s]].closed
        /\ pc[s] = "read" /\ pc'[s] = "forward"
            => /\ request'[s] # <<>>
               /\ \E r \in LoopReads(s) :
                      r.err = "nil" /\ r.data = request'[s]
        /\ pc[s] = "forward" /\ pc'[s] # "forward"
                /\ ups'[upstreamConn[s]].out = ups[upstreamConn[s]].out
            => /\ pc'[s] = "done"
               /\ hist'[s].exit = "fwderr"
               /\ NoCycleWork(s)
               /\ cli'[s].closed /\ ups'[upstreamConn[s]].closed
      ]_vars

\* C16: a session has ended on a read of zero bytes at the head of its
\* loop, with no task started and nothing written to either side.
C16_Witness ==
    /\ pc[1] = "done"
    /\ hist[1].exit = "zero"
    /\ relay[1] = RelayOff /\ pass[1] = PassOff
    /\ cli[1].out = <<>>
    /\ ups[upstreamConn[1]].out = <<>>
    /\ cli[1].closed /\ ups[upstreamConn[1]].closed

(***************************************************************************)
(* Chunks that are no well-formed request, two sessions side by side: a    *)
(* chunk that ends right after "HTTP/", a chunk with a line that is        *)
(* exactly "Connection:".                                                  *)
(***************************************************************************)
InitOdd == Listening("odd", Sessions) /\ NoCall

SpecOdd == InitOdd /\ [][Next]_vars

\* C17: parseHTTPHeaders returns for every chunk the loop reads: no
\* session takes the way out of a run-time panic, the process keeps
\* running, and a session that has read a chunk has gone on to forward it.
C17_ParseTotal ==
    /\ ~crashed
    /\ \A s \in Sessions :
           /\ hist[s].exit # "panic"
           /\ Len(hist[s].loopChunks) > hist[s].cycles /\ pc[s] = "done"
               => hist[s].exit = "fwderr"

(***************************************************************************)
(* Termination.  Both peers send what they send and then end or fail, so   *)
(* that every Read returns; every goroutine that can run does run.         *)
(***************************************************************************)
\* The steps of the goroutine of handleProxyConnection, of the upstream ->
\* client goroutine and of the client -> upstream goroutine.
MainSteps(s) ==
    \/ Accept(s) \/ Dial(s) \/ LoopRead(s) \/ Forward(s)
    \/ Join1(s) \/ Join2(s)
RelaySteps(s) == ScanRead(s) \/ RelayWrite(s) \/ CopyRead(s) \/ CopyWrite(s)
PassSteps(s) == PassRead(s) \/ PassWrite(s)

\* The scheduler lets every goroutine that stays runnable run.
Fairness ==
    \A s \in Sessions :
        /\ WF_vars(MainSteps(s))
        /\ WF_vars(RelaySteps(s))
        /\ WF_vars(PassSteps(s))

InitLive == Listening("live", {1}) /\ NoCall

SpecLive == InitLive /\ [][Next]_vars /\ Fairness

\* The session s has ended with its connections closed.
Terminated(s) ==
    /\ pc[s] = "done"
    /\ cli[s].closed
    /\ upstreamConn[s] # 0 => ups[upstreamConn[s]].closed

\* The join of s waits only for tasks that were started, and a task that
\* has returned has signalled it.
JoinCanPass(s) ==
    pc[s] \in {"join1", "join2"} =>
        /\ relay[s].pc # "off" /\ pass[s].pc # "off"
        /\ relay[s].pc = "done" => done1[s]
        /\ pass[s].pc = "done" => done2[s]

EndsWithFirstTerminator(b) ==
    /\ Contains(b, CRLFCRLF)
    /\ Index(b, CRLFCRLF) = Len(b) - Len(CRLFCRLF)

====
